---- MODULE Spec2Model ----
(***************************************************************************)
(* DHAVinci (src/DHAVinci.py): a carver that scans a memory-mapped input   *)
(* for the 4-byte signature 'DHAV', parses the 22-byte frame header found  *)
(* there, groups byte-adjacent frames into segments and writes each        *)
(* segment to a .dav file, optionally filtered by a time window.           *)
(*                                                                         *)
(* The model is byte-level: the input file is a sequence of bytes, the     *)
(* search is a literal substring search, header fields are decoded from    *)
(* the bytes a (possibly short) read returns.  Offsets are 0-based as in   *)
(* Python; sequences are 1-based as in TLA+.                               *)
(*                                                                         *)
(* Left out: the logging and the ETA estimate of lines 139-145, 176-184    *)
(* (progress reporting), argument parsing, directory creation.             *)
(***************************************************************************)
EXTENDS Integers, Sequences, FiniteSets, TLC

VARIABLES
    file,           \* bytes of the input file (args['inputfile'])
    skip,           \* args['skip']
    starttime,      \* args['start'] parsed, or None
    stoptime,       \* args['stop'] parsed, or None
    csv,            \* args['csv']
    dryrun,         \* args['dryrun']
    pc,             \* position of main(): "start", "scan", "close", "done", "crashed"
    startoffset,    \* startoffset after rounding (line 155)
    mm,             \* the bytes the memory map exposes (line 158)
    offset,         \* scan cursor (lines 156, 209)
    frames,         \* buffered segment: list of DHAVContext (line 161)
    timestamp,      \* local variable `timestamp` of main (lines 187, 196)
    alloutputfile,  \* rows written to found_all.csv, or Unbound
    selectionoutputfile, \* rows written to found_selection.csv, or Unbound
    files,          \* output directory 'video': filename -> bytes
    written,        \* history: the write_dav calls of this run, in order
    flushed,        \* history: the segments flushed in this run, in order
    found,          \* history: the header_offset of every loop iteration
    skipped,        \* history: frames whose date did not decode
    error,          \* the exception that ended main(), or None
    first,          \* outputs of the first run once the program is run again
    input,          \* arguments of a function applied on its own, else None
    output          \* what that function returned, else None

vars == <<file, skip, starttime, stoptime, csv, dryrun, pc, startoffset, mm,
          offset, frames, timestamp, alloutputfile, selectionoutputfile,
          files, written, flushed, found, skipped, error, first, input, output>>

-----------------------------------------------------------------------------
(* Bounds of the model *)

\* largest number of frame headers laid out in an input file
MaxItems == 3

\* mmap.ALLOCATIONGRANULARITY of the platform (4096 on Linux), scaled down
ALLOCATIONGRANULARITY == 8

\* loop iterations after which a run that does not stop is cut off
StepCap == MaxItems + 2

\* Python's None, an unbound local variable, and the exceptions main() can end with
None == <<>>
Unbound == <<"Unbound">>
ValueError == <<"ValueError">>
UnboundLocalError == <<"UnboundLocalError">>

Min(a, b) == IF a < b THEN a ELSE b

-----------------------------------------------------------------------------
(* Bytes *)

\* b'DHAV'
DHAV == <<68, 72, 65, 86>>

HEADER_SIZE == 22

RECURSIVE Pow(_, _)
Pow(b, e) == IF e = 0 THEN 1 ELSE b * Pow(b, e - 1)

\* int.from_bytes(bs, byteorder='little'); int.from_bytes(b'') is 0
RECURSIVE from_bytes_little(_)
from_bytes_little(bs) ==
    IF bs = <<>> THEN 0 ELSE bs[1] + 256 * from_bytes_little(Tail(bs))

\* int.from_bytes(bs) of at most one byte (byteorder defaults to 'big')
from_bytes(bs) == IF bs = <<>> THEN 0 ELSE bs[1]

\* n.to_bytes(k, 'little'), used to lay out input files
to_bytes_little(n, k) == [i \in 1..k |-> (n \div Pow(256, i - 1)) % 256]

\* mmap.read(n) at position pos: the bytes up to the end of the map, at most n
Read(m, pos, n) == SubSeq(m, pos + 1, Min(pos + n, Len(m)))

\* position after mmap.read(n) at position pos
Tell(m, pos, n) == Min(pos + n, Len(m))

\* mmap.find(sub, start): lowest index >= start where sub occurs, else -1
Occurs(m, sub, i) == i + Len(sub) <= Len(m) /\ SubSeq(m, i + 1, i + Len(sub)) = sub

findFromStartOfMap(m, sub, start) ==
    LET hits == {i \in 0..Len(m) : Occurs(m, sub, i)}
    IN  IF hits = {} THEN -1 ELSE CHOOSE i \in hits : \A j \in hits : i <= j

find(m, sub, start) ==
    LET hits == {i \in start..Len(m) : Occurs(m, sub, i)}
    IN  IF hits = {} THEN -1 ELSE CHOOSE i \in hits : \A j \in hits : i <= j

HexDigit == <<"0","1","2","3","4","5","6","7","8","9","a","b","c","d","e","f">>

\* bytes.hex()
RECURSIVE hex(_)
hex(bs) ==
    IF bs = <<>> THEN <<>>
    ELSE <<HexDigit[(bs[1] \div 16) + 1], HexDigit[(bs[1] % 16) + 1]>> \o hex(Tail(bs))

-----------------------------------------------------------------------------
(* Packed dates *)

Sec(date)   == date % 64
Minute(date) == (date \div 64) % 64
Hour(date)  == (date \div 4096) % 32
Day(date)   == (date \div 131072) % 32
MonthThreeBits(date) == (date \div 4194304) % 8

Month(date) == (date \div 4194304) % 16
Year(date)  == ((date \div 67108864) % 64) + 2000

IsLeap(y) == (y % 4 = 0 /\ y % 100 # 0) \/ y % 400 = 0

DaysInMonth(y, m) ==
    IF m = 2 THEN (IF IsLeap(y) THEN 29 ELSE 28)
    ELSE IF m \in {4, 6, 9, 11} THEN 30 ELSE 31

\* datetime(year, month, day, hour, min, sec) raises ValueError outside these ranges
ValidDateTime(y, mo, d, h, mi, s) ==
    /\ mo \in 1..12
    /\ d \in 1..DaysInMonth(y, mo)
    /\ h \in 0..23
    /\ mi \in 0..59
    /\ s \in 0..59

\* the datetime as <<year, month, day, hour, min, sec>>, or ValueError
date_to_timestamp(date) ==
    IF ValidDateTime(Year(date), Month(date), Day(date), Hour(date), Minute(date), Sec(date))
    THEN <<Year(date), Month(date), Day(date), Hour(date), Minute(date), Sec(date)>>
    ELSE ValueError

\* str(n).zfill(2) for n < 100, as decimal digits
zfill2(n) == <<n \div 10, n % 10>>

\* str(year) for a four-digit year
str4(n) == <<n \div 1000, (n \div 100) % 10, (n \div 10) % 10, n % 10>>

\* the 14 decimal digits YYYYmmddHHMMSS
date_to_str(date) ==
    str4(Year(date)) \o zfill2(Month(date)) \o zfill2(Day(date))
        \o zfill2(Hour(date)) \o zfill2(Minute(date)) \o zfill2(Sec(date))

\* datetime < datetime
RECURSIVE LexLess(_, _)
LexLess(a, b) ==
    IF a = <<>> THEN FALSE
    ELSE IF a[1] # b[1] THEN a[1] < b[1]
    ELSE LexLess(Tail(a), Tail(b))

timestamp_okExclusive(ts, start, stop) ==
    /\ ~(start # None /\ ~LexLess(start, ts))
    /\ ~(stop # None /\ ~LexLess(ts, stop))

timestamp_ok(ts, start, stop) ==
    /\ ~(start # None /\ LexLess(ts, start))
    /\ ~(stop # None /\ LexLess(stop, ts))

-----------------------------------------------------------------------------
(* DHAVContext.read_data and write_dav *)

\* f.read(n) of the field at byte k of the header: the reads are sequential,
\* so a field starts where the earlier (possibly short) reads ended
Field(m, header_offset, k, n) == Read(m, Min(header_offset + k, Len(m)), n)

\* position f.seek(-22, os.SEEK_CUR) asks for, after the 22 header bytes were read
SeekTarget(m, header_offset) == Tell(m, header_offset, HEADER_SIZE) - HEADER_SIZE

\* self.data = f.read(self.frame_length)
ReadFrameData(m, pos, frame_length) == Read(m, pos, frame_length)

\* The DHAVContext after read_data(mm) with mm positioned at header_offset.
\* raised: f.seek went below 0 (ValueError: seek out of range), data is unread.
\* header_offset and data_offset are bookkeeping, not fields of DHAVContext.
read_data(m, header_offset) ==
    LET frame_length == from_bytes_little(Field(m, header_offset, 12, 4))
        target == SeekTarget(m, header_offset)
    IN  [ signature       |-> Field(m, header_offset, 0, 4),
          type            |-> Field(m, header_offset, 4, 1),
          subtype         |-> Field(m, header_offset, 5, 1),
          channel         |-> from_bytes(Field(m, header_offset, 6, 1)),
          frame_subnumber |-> from_bytes(Field(m, header_offset, 7, 1)),
          frame_number    |-> from_bytes_little(Field(m, header_offset, 8, 4)),
          frame_length    |-> frame_length,
          date            |-> from_bytes_little(Field(m, header_offset, 16, 4)),
          timestamp       |-> from_bytes_little(Field(m, header_offset, 20, 2)),
          raised          |-> target < 0,
          data            |-> IF target < 0 THEN <<>>
                              ELSE ReadFrameData(m, target, frame_length),
          header_offset   |-> header_offset,
          data_offset     |-> target ]

RECURSIVE Concat(_)
Concat(datas) == IF datas = <<>> THEN <<>> ELSE Head(datas) \o Concat(Tail(datas))

\* the bytes write_dav writes: every frame's data, in order
DavBytes(frs) == Concat([i \in 1..Len(frs) |-> frs[i].data])

\* NVR_{channel}_main_{first date}_{last date}.dav
DavName(frs) ==
    <<frs[1].channel, date_to_str(frs[1].date), date_to_str(frs[Len(frs)].date)>>

\* open(output, 'wb') replaces a file of the same name
write_dav(dir, frs) ==
    [n \in (DOMAIN dir) \cup {DavName(frs)} |->
        IF n = DavName(frs) THEN DavBytes(frs) ELSE dir[n]]

-----------------------------------------------------------------------------
(* Input files and configurations of the model *)

Pack(y, mo, d, h, mi, s) ==
    s + 64 * mi + 4096 * h + 131072 * d + 4194304 * mo + 67108864 * (y - 2000)

DateEarly == Pack(2024, 8, 2, 15, 42, 0)
DateMid   == Pack(2024, 8, 2, 16, 42, 0)
DateBad   == Pack(2024, 0, 2, 15, 42, 0)

TEarly == <<2024, 8, 2, 15, 42, 0>>
TMid   == <<2024, 8, 2, 16, 42, 0>>

\* a header laid out in the input: its packed date, its declared frame_length
\* and the number of bytes that follow the 22 header bytes
ItemKinds ==
    {[date |-> DateEarly, frame_length |-> 24, pad |-> 2],   \* header and 2 bytes
     [date |-> DateMid,   frame_length |-> 24, pad |-> 2],
     [date |-> DateBad,   frame_length |-> 24, pad |-> 2],   \* undecodable date
     [date |-> DateMid,   frame_length |-> 22, pad |-> 2],   \* a gap follows
     [date |-> DateMid,   frame_length |-> 24, pad |-> 0],   \* declares more than follows
     [date |-> DateMid,   frame_length |-> 0,  pad |-> 0]}   \* declares no length

\* the 22 header bytes of the k-th item, in the order read_data reads them
HeaderBytes(k, item) ==
    DHAV \o <<253>> \o <<0>> \o <<1>> \o <<0>>
         \o to_bytes_little(k, 4)
         \o to_bytes_little(item.frame_length, 4)
         \o to_bytes_little(item.date, 4)
         \o to_bytes_little(k, 2)

\* n bytes that are no header bytes, different from place to place
PadBytes(pos, n) == [i \in 1..n |-> 128 + ((pos + i) % 100)]

RECURSIVE Layout(_, _, _)
Layout(items, k, sofar) ==
    IF k > Len(items) THEN sofar
    ELSE Layout(items, k + 1,
                sofar \o HeaderBytes(k, items[k])
                      \o PadBytes(Len(sofar) + HEADER_SIZE, items[k].pad))

ItemSeqs == UNION {[1..n -> ItemKinds] : n \in 0..MaxItems}

\* bytes cut off the end of the laid-out file
Cuts == {0, 2}

Truncate(bs, cut) == SubSeq(bs, 1, IF Len(bs) > cut THEN Len(bs) - cut ELSE 0)

\* inputs in which the signature never occurs: no header, and a signature cut short
NoSignatureFiles == {PadBytes(0, 30), PadBytes(0, 4) \o SubSeq(DHAV, 1, 3)}

InputFiles ==
    {Truncate(Layout(items, 1, <<>>), cut) : items \in ItemSeqs, cut \in Cuts}
        \cup NoSignatureFiles

\* the options of a run: args['skip'], args['start'], args['stop'], args['csv']
Configs ==
    {[skip |-> 0, start |-> None, stop |-> None, csv |-> TRUE],
     [skip |-> 0, start |-> TMid, stop |-> None, csv |-> TRUE],
     [skip |-> 0, start |-> None, stop |-> TEarly, csv |-> FALSE],
     [skip |-> 5, start |-> TMid, stop |-> None, csv |-> TRUE],
     [skip |-> 3 * ALLOCATIONGRANULARITY, start |-> None, stop |-> TEarly, csv |-> TRUE]}

heading == "timestamp,offset,type,subtype,channel,frame_number,frame_subnumber,frame_length,extra_timestamp"

Init ==
    /\ file \in InputFiles
    /\ \E c \in Configs :
          /\ skip = c.skip
          /\ starttime = c.start
          /\ stoptime = c.stop
          /\ csv = c.csv
    /\ dryrun = FALSE
    /\ pc = "start"
    /\ startoffset = skip
    /\ mm = <<>>
    /\ offset = 0
    /\ frames = <<>>
    /\ timestamp = Unbound
    /\ alloutputfile = Unbound
    /\ selectionoutputfile = Unbound
    /\ files = <<>>
    /\ written = <<>>
    /\ flushed = <<>>
    /\ found = <<>>
    /\ skipped = <<>>
    /\ error = None
    /\ first = <<>>
    /\ input = None
    /\ output = None

-----------------------------------------------------------------------------
(* main() *)

\* one CSV row (lines 204, 205): the formatted fields, in column order
Row(ts, header_offset, so, dhav) ==
    <<ts, header_offset + so, hex(dhav.type), hex(dhav.subtype), dhav.channel,
      dhav.frame_number, dhav.frame_subnumber, dhav.frame_length, dhav.timestamp>>

\* lines 153-155: round the skip offset down to the mapping granularity
RoundDown(so) == so - (so % ALLOCATIONGRANULARITY)

\* mmap.mmap(fileno, length): a length of 0 maps the whole file; ValueError for
\* an empty file and for a length beyond the end of the file
MapRaises(f, length) == (length = 0 /\ Len(f) = 0) \/ length > Len(f)

MapBytes(f, length) == IF length = 0 THEN f ELSE SubSeq(f, 1, length)

\* the segment-level decision of lines 169-171 and 188-190
ExportOkWet(ts, dry) == timestamp_ok(ts, starttime, stoptime)

ExportOk(ts, dry) == timestamp_ok(ts, starttime, stoptime) /\ ~dry

\* line 185: the signature lies beyond the cursor and a segment is buffered
GapFoundNoCursor(header_offset, cursor, frs) == frs # <<>>

GapFoundAfterLastFrame(header_offset, cursor, frs) ==
    /\ frs # <<>>
    /\ header_offset > frs[Len(frs)].header_offset + frs[Len(frs)].frame_length

GapFound(header_offset, cursor, frs) == header_offset > cursor /\ frs # <<>>

\* lines 202-203: the frame's own timestamp decides its row in found_selection.csv
SelectionWantedAlways(ts) == starttime # None \/ stoptime # None

SelectionWanted(ts) ==
    (starttime # None \/ stoptime # None) /\ timestamp_ok(ts, starttime, stoptime)

\* line 191: frames = [] once the buffered segment was flushed at a gap
FramesAfterFlushKept(frs) == frs

FramesAfterFlush(frs) == <<>>

\* timestamp the flush at scanner exhaustion tests (line 169): the local
\* variable, last assigned at line 187 or 196
ExhaustTimestamp == timestamp

\* timestamp the flush at a gap tests (line 187)
GapTimestamp == date_to_timestamp(frames[1].date)

FlushRecord(at, frs, ts, dry) ==
    [at |-> at, frames |-> frs, timestamp |-> ts,
     exported |-> ExportOk(ts, dry)]

\* lines 119-161: open the CSV tables, round the skip offset, map the file
Start ==
    /\ pc = "start"
    /\ alloutputfile' = IF csv THEN <<heading>> ELSE Unbound
    /\ selectionoutputfile' =
           IF csv /\ (starttime # None \/ stoptime # None) THEN <<heading>> ELSE Unbound
    /\ startoffset' = RoundDown(skip)
    /\ offset' = 0
    /\ frames' = <<>>
    /\ IF MapRaises(file, RoundDown(skip))
       THEN /\ pc' = "crashed"
            /\ error' = ValueError
            /\ mm' = mm
       ELSE /\ pc' = "scan"
            /\ error' = error
            /\ mm' = MapBytes(file, RoundDown(skip))
    /\ UNCHANGED <<input, output, file, skip, starttime, stoptime, csv, dryrun, timestamp,
                   files, written, flushed, found, skipped, first>>

\* lines 166-172: no further signature; flush what is buffered and leave the loop
ScanExhausted ==
    /\ pc = "scan"
    /\ find(mm, DHAV, offset) = -1
    /\ IF frames # <<>> /\ ExhaustTimestamp = Unbound
       THEN /\ pc' = "crashed"
            /\ error' = UnboundLocalError
            /\ UNCHANGED <<files, written, flushed>>
       ELSE /\ pc' = "close"
            /\ error' = error
            /\ IF frames # <<>>
               THEN /\ flushed' = Append(flushed,
                           FlushRecord("exhausted", frames, ExhaustTimestamp, dryrun))
                    /\ IF ExportOk(ExhaustTimestamp, dryrun)
                       THEN /\ files' = write_dav(files, frames)
                            /\ written' = Append(written, frames)
                       ELSE UNCHANGED <<files, written>>
               ELSE UNCHANGED <<files, written, flushed>>
    /\ UNCHANGED <<input, output, file, skip, starttime, stoptime, csv, dryrun, startoffset, mm,
                   offset, frames, timestamp, alloutputfile, selectionoutputfile,
                   found, skipped, first>>

\* lines 174-209: one iteration of the loop for the signature at header_offset
ScanFound ==
    /\ pc = "scan"
    /\ Len(found) < StepCap
    /\ LET header_offset == find(mm, DHAV, offset)
           gap == GapFound(header_offset, offset, frames)
           dhav == read_data(mm, header_offset)
           ts == date_to_timestamp(dhav.date)
           buffered == IF gap THEN FramesAfterFlush(frames) ELSE frames
       IN  /\ header_offset # -1
           /\ found' = Append(found, header_offset)
           \* lines 185-191
           /\ IF gap
              THEN /\ flushed' = Append(flushed,
                          FlushRecord("gap", frames, GapTimestamp, dryrun))
                   /\ IF ExportOk(GapTimestamp, dryrun)
                      THEN /\ files' = write_dav(files, frames)
                           /\ written' = Append(written, frames)
                      ELSE UNCHANGED <<files, written>>
              ELSE UNCHANGED <<files, written, flushed>>
           \* lines 192-209
           /\ IF dhav.raised
              THEN /\ pc' = "crashed"
                   /\ error' = ValueError
                   /\ frames' = buffered
                   /\ timestamp' = IF gap THEN GapTimestamp ELSE timestamp
                   /\ UNCHANGED <<offset, alloutputfile, selectionoutputfile, skipped>>
              ELSE /\ pc' = "scan"
                   /\ error' = error
                   /\ offset' = header_offset + dhav.frame_length
                   /\ IF ts = ValueError
                      THEN /\ frames' = buffered
                           /\ timestamp' = IF gap THEN GapTimestamp ELSE timestamp
                           /\ skipped' = Append(skipped, dhav)
                           /\ UNCHANGED <<alloutputfile, selectionoutputfile>>
                      ELSE /\ frames' = Append(buffered, dhav)
                           /\ timestamp' = ts
                           /\ skipped' = skipped
                           /\ alloutputfile' =
                                  IF csv
                                  THEN Append(alloutputfile,
                                              Row(ts, header_offset, startoffset, dhav))
                                  ELSE alloutputfile
                           /\ selectionoutputfile' =
                                  IF csv /\ SelectionWanted(ts)
                                  THEN Append(selectionoutputfile,
                                              Row(ts, header_offset, startoffset, dhav))
                                  ELSE selectionoutputfile
    /\ UNCHANGED <<input, output, file, skip, starttime, stoptime, csv, dryrun, startoffset, mm, first>>

\* lines 211-215: close the CSV tables
CloseCsv ==
    /\ pc = "close"
    /\ IF csv /\ selectionoutputfile = Unbound
       THEN pc' = "crashed" /\ error' = UnboundLocalError
       ELSE pc' = "done" /\ error' = error
    /\ UNCHANGED <<input, output, file, skip, starttime, stoptime, csv, dryrun, startoffset, mm,
                   offset, frames, timestamp, alloutputfile, selectionoutputfile,
                   files, written, flushed, found, skipped, first>>

\* the program is run a second time on the same input with the same options
\* plus --dryrun; the output directory keeps what the first run wrote
Rerun ==
    /\ pc \in {"done", "crashed"}
    /\ first = <<>>
    /\ first' = <<[pc |-> pc, error |-> error, alloutputfile |-> alloutputfile,
                  selectionoutputfile |-> selectionoutputfile, flushed |-> flushed,
                  written |-> written, found |-> found, files |-> files]>>
    /\ dryrun' = TRUE
    /\ pc' = "start"
    /\ startoffset' = skip
    /\ mm' = <<>>
    /\ offset' = 0
    /\ frames' = <<>>
    /\ timestamp' = Unbound
    /\ alloutputfile' = Unbound
    /\ selectionoutputfile' = Unbound
    /\ written' = <<>>
    /\ flushed' = <<>>
    /\ found' = <<>>
    /\ skipped' = <<>>
    /\ error' = None
    /\ UNCHANGED <<input, output, file, skip, starttime, stoptime, csv, files>>

Next == Start \/ ScanExhausted \/ ScanFound \/ CloseCsv \/ Rerun

Spec == Init /\ [][Next]_vars

-----------------------------------------------------------------------------
(* Notions the properties are stated in *)

\* the decoded timestamp of a segment's first frame
FirstTimestamp(frs) == date_to_timestamp(frs[1].date)

\* the region span [header_offset, header_offset + frame_length) of a frame
SpanBytes(fr) == Read(mm, fr.header_offset, fr.frame_length)

\* absolute offset of a frame: its signature's offset within the full input
AbsoluteOffset(fr) == fr.header_offset + startoffset

Adjacent(frs) ==
    \A i \in 1..(Len(frs) - 1) :
        AbsoluteOffset(frs[i + 1]) = AbsoluteOffset(frs[i]) + frs[i].frame_length

\* every segment the run has formed so far: the flushed ones and the buffered one
SegmentsSoFar ==
    {flushed[i].frames : i \in DOMAIN flushed} \cup (IF frames = <<>> THEN {} ELSE {frames})

\* the rows of a CSV table below the heading
DataRows(table) == IF table = Unbound THEN <<>> ELSE Tail(table)

WindowConfigured == starttime # None \/ stoptime # None

\* the loop iteration at header_offset ran to its end and decoded the date
DecodedAt(h) ==
    /\ ~read_data(mm, h).raised
    /\ date_to_timestamp(read_data(mm, h).date) # ValueError

\* ... and the frame's own timestamp passes the time-window filter
SelectedAt(h) ==
    timestamp_ok(date_to_timestamp(read_data(mm, h).date), starttime, stoptime)

-----------------------------------------------------------------------------
(* C1: whenever a segment is flushed, at a gap or at scanner exhaustion, it   *)
(* is written if and only if the decoded timestamp of its FIRST frame passes  *)
(* the time-window filter and the run is no dry run.                          *)
C1_FilterOnFirstFrameOnly ==
    \A i \in DOMAIN flushed :
        flushed[i].exported <=>
            (timestamp_ok(FirstTimestamp(flushed[i].frames), starttime, stoptime)
             /\ ~dryrun)

(* C2: lossless carving: the bytes written for a segment are the              *)
(* concatenation of the region spans [offset_i, offset_i + frame_length_i) of *)
(* its frames, in order; the bytes kept for a frame start at its signature.   *)
C2_LosslessCarving ==
    /\ \A j \in DOMAIN written :
           DavBytes(written[j]) =
               Concat([i \in 1..Len(written[j]) |-> SpanBytes(written[j][i])])
    /\ \A i \in DOMAIN frames : frames[i].data = SpanBytes(frames[i])

(* C3: segment adjacency: in every reachable state the buffered segment and   *)
(* every flushed segment is pairwise byte-adjacent.                           *)
C3_SegmentAdjacency == \A seg \in SegmentsSoFar : Adjacent(seg)

(* C4: contiguity grouping: when a signature is found at offset H, the        *)
(* buffered segment is flushed and emptied if and only if H is greater than   *)
(* the cursor and the buffer is non-empty; when H equals the cursor, a frame  *)
(* whose date decodes is appended to the current segment.                     *)
C4_ContiguityGrouping ==
    [][ (pc = "scan" /\ Len(found') = Len(found) + 1) =>
        LET H == found'[Len(found')]
            gapHere == H > offset /\ frames # <<>>
        IN  /\ H >= offset
            /\ (Len(flushed') = Len(flushed) + 1) <=> gapHere
            /\ gapHere =>
                  /\ flushed'[Len(flushed')].frames = frames
                  /\ flushed'[Len(flushed')].at = "gap"
                  /\ \A i \in DOMAIN frames' : frames'[i].header_offset = H
            /\ ~gapHere => flushed' = flushed
            /\ (H = offset /\ pc' = "scan"
                  /\ date_to_timestamp(from_bytes_little(Field(mm, H, 16, 4))) # ValueError) =>
                  /\ Len(frames') = Len(frames) + 1
                  /\ SubSeq(frames', 1, Len(frames)) = frames
                  /\ frames'[Len(frames')].header_offset = H
      ]_vars

\* a run of two adjacent frames was flushed as one segment at a gap, and the
\* frame after the gap started the next segment
C4_Witness ==
    /\ flushed # <<>>
    /\ flushed[1].at = "gap"
    /\ Len(flushed[1].frames) = 2
    /\ Adjacent(flushed[1].frames)
    /\ Len(frames) = 1
    /\ frames[1].header_offset >
           flushed[1].frames[2].header_offset + flushed[1].frames[2].frame_length

(* C5: a frame whose packed date does not decode never aborts the run, is in  *)
(* no segment, has no row in either CSV table, none of its bytes is in an     *)
(* exported file, and the cursor advances to H + frame_length.                *)
C5_InvalidDateSkipped ==
    /\ \A k \in DOMAIN skipped :
          LET bad == skipped[k]
          IN  /\ \A seg \in SegmentsSoFar : \A i \in DOMAIN seg :
                     seg[i].header_offset # bad.header_offset
              /\ \A i \in DOMAIN DataRows(alloutputfile) :
                     DataRows(alloutputfile)[i][2] # AbsoluteOffset(bad)
              /\ \A i \in DOMAIN DataRows(selectionoutputfile) :
                     DataRows(selectionoutputfile)[i][2] # AbsoluteOffset(bad)
              /\ \A j \in DOMAIN written : \A i \in DOMAIN written[j] :
                     LET fr == written[j][i]
                     IN  \/ fr.data = <<>>
                         \/ fr.data_offset + Len(fr.data) <= bad.header_offset
                         \/ fr.data_offset >= bad.header_offset + bad.frame_length
    /\ (pc = "scan" /\ skipped # <<>>
          /\ skipped[Len(skipped)].header_offset = found[Len(found)]) =>
              offset = found[Len(found)] + skipped[Len(skipped)].frame_length
    /\ (pc = "crashed" /\ error = ValueError /\ found # <<>>) =>
              date_to_timestamp(from_bytes_little(Field(mm, found[Len(found)], 16, 4)))
                  # ValueError

\* the segments a run formed and flushed, without the export decision
SegmentsFlushed(fl) == [i \in DOMAIN fl |-> [at |-> fl[i].at, frames |-> fl[i].frames]]

(* C6: a dry run over the same input and options writes no container file,    *)
(* and when it ends it has written the same rows to both CSV tables and has   *)
(* formed and flushed the same segments as the run without --dryrun.          *)
C6_DryRunSameTables ==
    first # <<>> =>
        /\ dryrun
        /\ written = <<>>
        /\ files = first[1].files
        /\ pc \in {"done", "crashed"} =>
              /\ pc = first[1].pc
              /\ alloutputfile = first[1].alloutputfile
              /\ selectionoutputfile = first[1].selectionoutputfile
              /\ SegmentsFlushed(flushed) = SegmentsFlushed(first[1].flushed)
              /\ found = first[1].found

\* a dry run has ended after a first run that wrote a file and rows to both tables
C6_Witness ==
    /\ first # <<>>
    /\ pc = "done"
    /\ first[1].written # <<>>
    /\ flushed # <<>>
    /\ Len(alloutputfile) > 1
    /\ selectionoutputfile # Unbound
    /\ Len(selectionoutputfile) > 1

\* the offsets of `found` whose iteration decoded a date, in scan order
DecodedOffsets == SelectSeq(found, DecodedAt)

(* C7: with CSV output, every frame with a decoded date has exactly one row   *)
(* in found_all.csv, in scan order; with a time window configured it has a    *)
(* row in found_selection.csv if and only if its own timestamp passes the     *)
(* filter, whether or not its segment is exported.                            *)
C7_PerFrameRows ==
    (csv /\ pc # "start") =>
        LET decoded == DecodedOffsets
            allrows == DataRows(alloutputfile)
            selrows == DataRows(selectionoutputfile)
        IN  /\ Len(allrows) = Len(decoded)
            /\ \A i \in DOMAIN decoded :
                  /\ allrows[i][2] = decoded[i] + startoffset
                  /\ allrows[i][1] = date_to_timestamp(read_data(mm, decoded[i]).date)
            /\ IF WindowConfigured
               THEN LET sel == SelectSeq(decoded, SelectedAt)
                    IN  /\ Len(selrows) = Len(sel)
                        /\ \A i \in DOMAIN sel :
                              /\ selrows[i][2] = sel[i] + startoffset
                              /\ selrows[i][1] =
                                     date_to_timestamp(read_data(mm, sel[i]).date)
               ELSE selectionoutputfile = Unbound

\* a segment was rejected at export in a run that writes files, yet a later
\* frame of it has its row in found_selection.csv, and another frame has none
C7_Witness ==
    /\ csv /\ ~dryrun /\ WindowConfigured
    /\ \E k \in DOMAIN flushed :
          /\ ~flushed[k].exported
          /\ \E i \in 2..Len(flushed[k].frames) :
                \E r \in DOMAIN DataRows(selectionoutputfile) :
                    DataRows(selectionoutputfile)[r][2] = AbsoluteOffset(flushed[k].frames[i])
    /\ Len(DataRows(selectionoutputfile)) < Len(DataRows(alloutputfile))

(* C8: a declared frame_length that exceeds what is left of the region is     *)
(* never silently truncated: no frame with fewer than frame_length raw bytes  *)
(* is in a segment or in a written file.                                      *)
C8_NoSilentTruncation ==
    /\ \A seg \in SegmentsSoFar : \A i \in DOMAIN seg :
           Len(seg[i].data) = seg[i].frame_length
    /\ \A j \in DOMAIN written : \A i \in DOMAIN written[j] :
           Len(written[j][i].data) = written[j][i].frame_length

(* C9: for every skip offset the scanned region is the input from the         *)
(* rounded-down skip offset to its end, and every offset reported in the CSV  *)
(* tables is the offset of that frame's signature in the input file.          *)
C9_SkipAndAbsoluteOffsets ==
    /\ pc \in {"scan", "close", "done"} =>
           mm = SubSeq(file, RoundDown(skip) + 1, Len(file))
    /\ \A i \in DOMAIN DataRows(alloutputfile) :
           LET row == DataRows(alloutputfile)[i]
           IN  /\ Occurs(file, DHAV, row[2])
               /\ from_bytes_little(SubSeq(file, row[2] + 9, row[2] + 12)) = row[6]

(* C10: the signature offsets the loop processes are strictly increasing: the *)
(* cursor moves strictly forward at every step, so the scan is finite.        *)
C10_StrictlyForward ==
    \A i \in 1..(Len(found) - 1) : found[i] < found[i + 1]

\* ---------------------------------------------------------------------------
\* offsets at or after the cursor where the four signature bytes occur
OccurrencesFromCursor == {i \in offset..Len(mm) : Occurs(mm, DHAV, i)}

\* C11: every offset H the loop processes is the smallest offset at or after
\* the cursor where the bytes 'DHAV' occur in the region, so H is never below
\* the cursor, and the loop reports exhaustion exactly when no occurrence
\* exists at or after the cursor.
C11_LiteralSearchFromCursor ==
    [][pc = "scan" =>
          /\ found' # found =>
                LET H == found'[Len(found')]
                IN  /\ found' = Append(found, H)
                    /\ H >= offset
                    /\ H \in OccurrencesFromCursor
                    /\ \A j \in OccurrencesFromCursor : H <= j
          /\ found' = found => OccurrencesFromCursor = {}
          /\ OccurrencesFromCursor = {} => found' = found /\ pc' # "scan"]_vars

\* the scan ended, two signatures were processed, and a signature lying inside
\* the declared span of the first processed frame was passed over
C11_Witness ==
    /\ pc = "close"
    /\ Len(found) >= 2
    /\ \E i \in 1..Len(mm) :
          /\ Occurs(mm, DHAV, i)
          /\ i > found[1]
          /\ i < found[2]
          /\ \A k \in 1..Len(found) : found[k] # i

\* ---------------------------------------------------------------------------
\* timestamp_ok applied on its own
\* ---------------------------------------------------------------------------

mainvars == <<file, skip, starttime, stoptime, csv, dryrun, pc, startoffset, mm, offset,
              frames, timestamp, alloutputfile, selectionoutputfile,
              files, written, flushed, found, skipped, error, first>>

\* main() is not running
MainIdle ==
    /\ file = <<>> /\ skip = 0 /\ starttime = None /\ stoptime = None
    /\ csv = FALSE /\ dryrun = FALSE /\ pc = "idle"
    /\ startoffset = 0 /\ mm = <<>> /\ offset = 0
    /\ frames = <<>> /\ timestamp = Unbound
    /\ alloutputfile = Unbound /\ selectionoutputfile = Unbound
    /\ files = <<>> /\ written = <<>> /\ flushed = <<>>
    /\ found = <<>> /\ skipped = <<>> /\ error = None /\ first = <<>>

\* year ends, a day apart, an hour apart, a second apart
FilterTimes ==
    {<<2023, 12, 31, 23, 59, 59>>, <<2024, 1, 1, 0, 0, 0>>, TEarly, TMid,
     <<2024, 8, 2, 16, 42, 1>>}

InitFilter ==
    /\ MainIdle
    /\ input \in [timestamp : FilterTimes,
                  starttime : FilterTimes \cup {None},
                  stoptime  : FilterTimes \cup {None}]
    /\ output = None

\* lines 111-116: one call of timestamp_ok
ApplyFilter ==
    /\ output = None
    /\ output' = <<timestamp_ok(input.timestamp, input.starttime, input.stoptime)>>
    /\ UNCHANGED <<input, mainvars>>

NextFilter == ApplyFilter

SpecFilter == InitFilter /\ [][NextFilter]_vars

\* position of a date-time in chronological order
Chronological(ts) ==
    ((((((ts[1] - 2000) * 12 + (ts[2] - 1)) * 31 + (ts[3] - 1)) * 24 + ts[4]) * 60
        + ts[5]) * 60) + ts[6]

\* C12: the filter rejects a candidate timestamp t iff (start is set and t is
\* before start) or (stop is set and t is after stop); t equal to a bound is
\* accepted and an absent bound disables its side of the check.
C12_TimeWindowFilter ==
    output # None =>
        (output = <<FALSE>>
            <=> \/ /\ input.starttime # None
                   /\ Chronological(input.timestamp) < Chronological(input.starttime)
                \/ /\ input.stoptime # None
                   /\ Chronological(input.timestamp) > Chronological(input.stoptime))

\* the filter was applied to a timestamp equal to both bounds and accepted it
C12_Witness ==
    /\ output = <<TRUE>>
    /\ input.starttime = input.timestamp
    /\ input.stoptime = input.timestamp

\* ---------------------------------------------------------------------------
\* date_to_timestamp and date_to_str applied on their own
\* ---------------------------------------------------------------------------

\* The 32-bit packed value with bit 31 set (years 2032..2063) is held as its
\* residue modulo 2^32 in -2^31 .. 2^31 - 1: floor division and modulus by
\* powers of two read the same bits from the residue as >> and & read from
\* the unsigned value.
Pack32(y, mo, d, h, mi, s) ==
    LET yy == y - 2000
        top == IF yy >= 32 THEN yy - 64 ELSE yy
    IN  s + 64 * mi + 4096 * h + 131072 * d + 4194304 * mo + 67108864 * top

CodecYears == {2000, 2001, 2024, 2031, 2032, 2063}
CodecDays == {1, 15, 28, 29, 30, 31}
CodecHours == {0, 16, 23}
CodecMinutes == {0, 42, 59}
CodecSeconds == {0, 59}

\* valid date-times: every month, month ends, leap days, both halves of the
\* year range, the extremes of every field
CodecDateTimes ==
    {dt \in CodecYears \X (1..12) \X CodecDays \X CodecHours \X CodecMinutes \X CodecSeconds :
        ValidDateTime(dt[1], dt[2], dt[3], dt[4], dt[5], dt[6])}

InitCodec ==
    /\ MainIdle
    /\ \E dt \in CodecDateTimes :
          input = [datetime |-> dt,
                   date |-> Pack32(dt[1], dt[2], dt[3], dt[4], dt[5], dt[6])]
    /\ output = None

\* lines 83-90: one call of date_to_timestamp
DecodeTimestamp ==
    /\ output = None
    /\ output' = <<date_to_timestamp(input.date)>>
    /\ UNCHANGED <<input, mainvars>>

\* lines 95-102: one call of date_to_str
DecodeStr ==
    /\ Len(output) = 1
    /\ output' = Append(output, date_to_str(input.date))
    /\ UNCHANGED <<input, mainvars>>

NextCodec == DecodeTimestamp \/ DecodeStr

SpecCodec == InitCodec /\ [][NextCodec]_vars

\* C13: for every date-time with year 2000..2063 and valid month, day, hour,
\* minute and second, decoding the 32-bit value its fields are packed into
\* (seconds 6 bits, minutes 6, hours 5, day 5, month 4, year-2000 6, least
\* significant first) yields the identical date-time, as a timestamp and as
\* the 14 digits of the file name.
C13_PackedDateRoundTrip ==
    /\ Len(output) >= 1 => output[1] = input.datetime
    /\ Len(output) >= 2 =>
          LET dt == input.datetime
          IN  output[2] = str4(dt[1]) \o zfill2(dt[2]) \o zfill2(dt[3])
                              \o zfill2(dt[4]) \o zfill2(dt[5]) \o zfill2(dt[6])

\* 2063-12-31 23:59:59, every field at its maximum, was packed and decoded
C13_Witness ==
    /\ Len(output) = 2
    /\ input.datetime = <<2063, 12, 31, 23, 59, 59>>
    /\ output[1] = <<2063, 12, 31, 23, 59, 59>>

\* ---------------------------------------------------------------------------
\* the region was mapped and holds nothing to carve: the signature occurs
\* nowhere in it, or every header processed had an undecodable date
NothingToCarve ==
    /\ mm # <<>>
    /\ \/ \A i \in 0..Len(mm) : ~Occurs(mm, DHAV, i)
       \/ found # <<>> /\ Len(skipped) = Len(found)

\* C14: when the signature never occurs in the region, and likewise when
\* every frame found has an undecodable date, the run completes normally
\* without error and writes no container file.
C14_NothingToCarveIsNoError ==
    (NothingToCarve /\ pc \in {"done", "crashed"}) =>
        /\ pc = "done"
        /\ error = None
        /\ written = <<>>
        /\ files = <<>>

\* ---------------------------------------------------------------------------
\* header offsets of the frames of every flushed segment, in flush order
FlushedOffsets ==
    Concat([i \in DOMAIN flushed |->
               [j \in DOMAIN flushed[i].frames |-> flushed[i].frames[j].header_offset]])

\* the places <<segment, position>> where a flushed segment holds the frame at h
FlushedPlaces(h) ==
    {p \in (DOMAIN flushed) \X (1..StepCap) :
        /\ p[2] \in DOMAIN flushed[p[1]].frames
        /\ flushed[p[1]].frames[p[2]].header_offset = h}

\* C15: when the scan has stopped, every frame that was appended to a segment
\* belongs to exactly one flushed segment (flushed at a gap or at exhaustion):
\* no appended frame is left without an export decision, none is part of two
\* flushed segments, and nothing else was flushed.
C15_FlushedExactlyOnce ==
    pc \in {"close", "done", "crashed"} =>
        LET appended == DecodedOffsets
        IN  /\ \A k \in DOMAIN appended : Cardinality(FlushedPlaces(appended[k])) = 1
            /\ FlushedOffsets = appended

\* a finished run that appended three frames, flushed a segment at a gap and
\* the rest at exhaustion
C15_Witness ==
    /\ pc = "done"
    /\ Len(DecodedOffsets) = 3
    /\ Len(flushed) = 2
    /\ flushed[1].at = "gap"
    /\ flushed[2].at = "exhausted"

\* ---------------------------------------------------------------------------
\* the last header processed had an undecodable date and started exactly at
\* the end of the last buffered frame
SkippedRightAfterBuffer ==
    /\ frames # <<>>
    /\ skipped # <<>>
    /\ found # <<>>
    /\ skipped[Len(skipped)].header_offset = found[Len(found)]
    /\ skipped[Len(skipped)].header_offset =
           frames[Len(frames)].header_offset + frames[Len(frames)].frame_length

\* C16: the gap test uses the cursor, not the buffered frames.  With a valid
\* frame a buffered, an undecodable-date frame b starting exactly at the end
\* of a is processed without a flush, leaves the segment untouched and moves
\* the cursor to b.offset + b.frame_length; a valid frame c starting exactly
\* there is then appended to the same segment as a, again without a flush.
C16_GapTestUsesCursor ==
    [][(pc = "scan" /\ found' # found /\ pc' = "scan") =>
          LET H == found'[Len(found')]
              dhav == read_data(mm, H)
          IN  /\ (/\ frames # <<>>
                   /\ H = frames[Len(frames)].header_offset
                              + frames[Len(frames)].frame_length
                   /\ date_to_timestamp(dhav.date) = ValueError)
                  => /\ flushed' = flushed
                     /\ frames' = frames
                     /\ offset' = H + dhav.frame_length
              /\ (/\ SkippedRightAfterBuffer
                   /\ H = skipped[Len(skipped)].header_offset
                              + skipped[Len(skipped)].frame_length
                   /\ date_to_timestamp(dhav.date) # ValueError)
                  => /\ flushed' = flushed
                     /\ Len(frames') = Len(frames) + 1
                     /\ SubSeq(frames', 1, Len(frames)) = frames
                     /\ frames'[Len(frames')].header_offset = H]_vars

\* a, b, c were processed: the buffer holds a and c, b between them was
\* skipped, and nothing was flushed
C16_Witness ==
    /\ pc = "scan"
    /\ Len(frames) = 2
    /\ Len(skipped) = 1
    /\ flushed = <<>>
    /\ skipped[1].header_offset = frames[1].header_offset + frames[1].frame_length
    /\ skipped[1].frame_length > 0
    /\ frames[2].header_offset = skipped[1].header_offset + skipped[1].frame_length
    /\ offset = frames[2].header_offset + frames[2].frame_length
    /\ frames[2].frame_length > 0

\* ---------------------------------------------------------------------------
\* C17: with CSV output enabled and neither start nor stop configured the run
\* completes without error: found_all.csv holds the header row and one row
\* per accepted frame, and the selected-frames table is neither produced nor
\* referenced at any step, the final closing of the tables included.
C17_CsvWithoutWindow ==
    (csv /\ ~WindowConfigured /\ mm # <<>>) =>
        /\ selectionoutputfile = Unbound
        /\ ~(pc = "crashed" /\ error = UnboundLocalError)
        /\ pc = "done" =>
              /\ alloutputfile[1] = heading
              /\ Len(DataRows(alloutputfile)) = Len(DecodedOffsets)

\* ---------------------------------------------------------------------------
\* C18: every segment exported in a run without --dryrun survives in the
\* output: there is an output file holding exactly that segment's bytes, so
\* a later exported segment never replaces the file of an earlier one, also
\* when both share the first frame's channel and the first and last dates.
C18_ExportedSegmentsSurvive ==
    \A j \in DOMAIN written :
        /\ DavName(written[j]) \in DOMAIN files
        /\ files[DavName(written[j])] = DavBytes(written[j])

====
